---- MODULE Spec2Model ----
(***************************************************************************)
(* Model of the Smart Planner microservice (src/app.py).                   *)
(*                                                                         *)
(* Text is a sequence of one-character strings.  Python's None is the      *)
(* string "None" for the capability handles and the one-element sequence   *)
(* <<"None">> for a task's start/end (a value no character string equals). *)
(***************************************************************************)
EXTENDS Integers, Sequences, FiniteSets, TLC

VARIABLES
    client,              \* module-level Groq handle, "Groq" or "None"
    sentiment_pipeline,  \* module-level classifier handle, "pipeline" or "None"
    pc,                  \* position of the current request in plan_day
    data,                \* request.json of the current request
    text,                \* data.get("text", "")
    sentiment,           \* senti["label"]
    score,               \* senti["score"]
    tasks,               \* build_tasks_from_text(text)
    emotion,             \* "Stressed" / "Balanced"
    suggestions,         \* result of generate_dynamic_suggestions
    raw_output,          \* what the remote call produced for this request
    status,              \* HTTP status of the answer, 0 while in progress
    resp,                \* body of the answer
    cls_input,           \* argument of the last classifier invocation
    cls_calls,           \* classifier invocations during this request
    llm_calls,           \* chat-completion invocations during this request
    raw_text,            \* argument of build_tasks_from_text (library check)
    built,               \* its return value
    phase                \* "in" before the call, "out" after

vars == <<client, sentiment_pipeline, pc, data, text, sentiment, score, tasks,
          emotion, suggestions, raw_output, status, resp, cls_input, cls_calls,
          llm_calls, raw_text, built, phase>>

hvars == <<client, sentiment_pipeline, pc, data, text, sentiment, score, tasks,
           emotion, suggestions, raw_output, status, resp, cls_input, cls_calls,
           llm_calls>>

tvars == <<raw_text, built, phase>>

----------------------------------------------------------------------------
(* Bounds of the exploration *)

MaxLen == 5      \* longest raw_text given to build_tasks_from_text
MaxFrags == 9    \* most fragments in a request's text
MaxOut == 3      \* longest LLM response text

TaskAlphabet == {"a", "M", "1", " ", ",", ":", "\n"}
OutAlphabet == {"[", "]", "1", ",", "x", " "}

Strings(A, n) == UNION {[1..k -> A] : k \in 0..n}

Min(S) == CHOOSE x \in S : \A y \in S : x <= y
Max(S) == CHOOSE x \in S : \A y \in S : y <= x

----------------------------------------------------------------------------
(* Character classes used by re and str *)

None == <<"None">>

Digits == {"0", "1", "2", "3", "4", "5", "6", "7", "8", "9"}

LowerSeq == <<"a", "b", "c", "d", "e", "f", "g", "h", "i", "j", "k", "l", "m",
              "n", "o", "p", "q", "r", "s", "t", "u", "v", "w", "x", "y", "z",
              "à", "á", "â", "ã", "ä", "å", "æ", "ç", "è", "é", "ê", "ë", "ì",
              "í", "î", "ï", "ð", "ñ", "ò", "ó", "ô", "õ", "ö", "ø", "ù", "ú",
              "û", "ü", "ý", "þ">>

UpperSeq == <<"A", "B", "C", "D", "E", "F", "G", "H", "I", "J", "K", "L", "M",
              "N", "O", "P", "Q", "R", "S", "T", "U", "V", "W", "X", "Y", "Z",
              "À", "Á", "Â", "Ã", "Ä", "Å", "Æ", "Ç", "È", "É", "Ê", "Ë", "Ì",
              "Í", "Î", "Ï", "Ð", "Ñ", "Ò", "Ó", "Ô", "Õ", "Ö", "Ø", "Ù", "Ú",
              "Û", "Ü", "Ý", "Þ">>

Lowers == {LowerSeq[i] : i \in 1..Len(LowerSeq)}
Uppers == {UpperSeq[i] : i \in 1..Len(UpperSeq)}

\* Latin-1 characters that are \w without having a one-character Latin-1 case pair
OtherWord == {"ª", "²", "³", "µ", "¹", "º", "¼", "½", "¾", "ß", "ÿ"}

IsDigit(c) == c \in Digits

\* \s and str.strip() whitespace: tab, line feed, VT, form feed, CR, FS, GS, RS,
\* US, space, NEL, no-break space
IsSpace(c) == c \in {" ", "\n", "\t", "\r", "\f", "", "", "", "", "", "", " "}

\* \w : letters, digits, underscore
IsWord(c) == c \in Lowers \/ c \in Uppers \/ c \in Digits \/ c = "_" \/ c \in OtherWord

ToLower(c) == IF c \in Uppers
              THEN LowerSeq[CHOOSE i \in 1..Len(UpperSeq) : UpperSeq[i] = c]
              ELSE c

ToUpper(c) == IF c \in Lowers
              THEN UpperSeq[CHOOSE i \in 1..Len(LowerSeq) : LowerSeq[i] = c]
              ELSE c

\* the separator class [.,;] of re.split
IsSep(c) == c \in {".", ",", ";"}

\* s[i:] with a 1-based i
Drop(s, i) == SubSeq(s, i, Len(s))

\* s[:n]
Take(s, n) == SubSeq(s, 1, IF n < Len(s) THEN n ELSE Len(s))

RECURSIVE LStrip(_)
LStrip(s) == IF s # <<>> /\ IsSpace(Head(s)) THEN LStrip(Tail(s)) ELSE s

RECURSIVE RStrip(_)
RStrip(s) == IF s # <<>> /\ IsSpace(s[Len(s)])
             THEN RStrip(SubSeq(s, 1, Len(s) - 1))
             ELSE s

\* str.strip()
Strip(s) == RStrip(LStrip(s))

\* the title-case form of a first character; that of sharp s is two characters,
\* those of the micro sign and of y with diaeresis lie outside Latin-1 and are
\* written as the name of their code point
TitleFirst(c) == IF c = "ß" THEN <<"S", "s">>
                 ELSE IF c = "µ" THEN <<"U+039C">>
                 ELSE IF c = "ÿ" THEN <<"U+0178">>
                 ELSE <<ToUpper(c)>>

\* str.capitalize(): first character title-cased, the rest lower-cased
Capitalize(s) == IF s = <<>> THEN <<>>
                 ELSE TitleFirst(s[1]) \o [i \in 1..(Len(s) - 1) |-> ToLower(s[i + 1])]

----------------------------------------------------------------------------
(* parse_time_range: re.findall(r'(\d{1,2}(?::\d{2})?\s*(?:am|pm)?)', text, re.I) *)

RECURSIVE SkipSpace(_, _)
SkipSpace(s, i) == IF i <= Len(s) /\ IsSpace(s[i]) THEN SkipSpace(s, i + 1) ELSE i

\* index just past the match that starts at the digit s[i]
MatchEnd(s, i) ==
    LET d == IF i + 1 <= Len(s) /\ IsDigit(s[i + 1]) THEN i + 2 ELSE i + 1
        c == IF d + 2 <= Len(s) /\ s[d] = ":" /\ IsDigit(s[d + 1]) /\ IsDigit(s[d + 2])
             THEN d + 3 ELSE d
        w == SkipSpace(s, c)
    IN  IF w + 1 <= Len(s) /\ ToLower(s[w]) \in {"a", "p"} /\ ToLower(s[w + 1]) = "m"
        THEN w + 2 ELSE w

\* position of the first digit at or after i, Len(s) + 1 when there is none
NextDigit(s, i) == Min({k \in i..Len(s) : IsDigit(s[k])} \cup {Len(s) + 1})

\* the scan resumes just past each match
RECURSIVE FindAllFrom(_, _)
FindAllFrom(s, i) ==
    IF NextDigit(s, i) > Len(s) THEN <<>>
    ELSE <<SubSeq(s, NextDigit(s, i), MatchEnd(s, NextDigit(s, i)) - 1)>>
         \o FindAllFrom(s, MatchEnd(s, NextDigit(s, i)))

parse_time_range(s) == FindAllFrom(s, 1)

----------------------------------------------------------------------------
(* build_tasks_from_text *)

\* re.split(r'[.,;]', raw_text)
\* position of the first separator at or after i, Len(s) + 1 when there is none
NextSep(s, i) == Min({k \in i..Len(s) : IsSep(s[k])} \cup {Len(s) + 1})

RECURSIVE SplitFrom(_, _, _)
SplitFrom(s, i, cur) ==
    IF NextSep(s, i) > Len(s) THEN <<cur \o SubSeq(s, i, Len(s))>>
    ELSE <<cur \o SubSeq(s, i, NextSep(s, i) - 1)>> \o SplitFrom(s, NextSep(s, i) + 1, <<>>)

RECURSIVE MapStrip(_)
MapStrip(ps) == IF ps = <<>> THEN <<>> ELSE <<Strip(Head(ps))>> \o MapStrip(Tail(ps))

NonEmpty(s) == s # <<>>

\* sentences = [s.strip() for s in re.split(...) if s.strip()]
Sentences(raw) == SelectSeq(MapStrip(SplitFrom(raw, 1, <<>>)), NonEmpty)

\* re.sub(r'\b\d.*$', '', s): '.' stops at a line break and '$' is the end of s
SubStarts(s) == {i \in 1..Len(s) : /\ IsDigit(s[i])
                                   /\ (i = 1 \/ ~IsWord(s[i - 1]))
                                   /\ \A j \in i..Len(s) : s[j] # "\n"}

\* the leftmost such position at or after i, 0 when there is none
FirstSubStart(s, i) ==
    IF {k \in SubStarts(s) : k >= i} = {} THEN 0
    ELSE Min({k \in SubStarts(s) : k >= i})

StripDigitsToEnd(s) == IF FirstSubStart(s, 1) = 0 THEN s
                       ELSE SubSeq(s, 1, FirstSubStart(s, 1) - 1)

TitleWithoutDefault(s) == Capitalize(Strip(StripDigitsToEnd(s)))

TitleOf(s) == IF Capitalize(Strip(StripDigitsToEnd(s))) = <<>>
              THEN <<"T", "a", "s", "k">>
              ELSE Capitalize(Strip(StripDigitsToEnd(s)))

\* start, end = (times + [None])[:2]
StartEndLast(times) == <<times[1], IF Len(times) >= 2 THEN times[Len(times)] ELSE None>>

StartEnd(times) == SubSeq(times \o <<None>>, 1, 2)

TaskOf(s) == [title |-> TitleOf(s),
              start |-> StartEnd(parse_time_range(s))[1],
              end   |-> StartEnd(parse_time_range(s))[2]]

\* if not times: continue
SkipsAtMostOneTime(times) == Len(times) < 2

Skips(times) == times = <<>>

RECURSIVE TasksOf(_)
TasksOf(ss) ==
    IF ss = <<>> THEN <<>>
    ELSE IF Skips(parse_time_range(Head(ss))) THEN TasksOf(Tail(ss))
         ELSE <<TaskOf(Head(ss))>> \o TasksOf(Tail(ss))

build_tasks_from_text(raw) == TasksOf(Sentences(raw))

----------------------------------------------------------------------------
(* generate_dynamic_suggestions *)

\* if not tasks or not client: return []
ShortCircuitOnClientOnly(ts, cl) == cl = "None"

ShortCircuit(ts, cl) == ts = <<>> \/ cl = "None"

\* re.search(r'\[.*\]', raw_output, re.DOTALL): leftmost '[' to the last ']'
Opens(s) == {i \in 1..Len(s) : s[i] = "["}
Closes(s) == {i \in 1..Len(s) : s[i] = "]"}

HasSpan(s) == \E i \in Opens(s) : \E j \in Closes(s) : i < j

Span(s) == SubSeq(s, Min(Opens(s)), Max(Closes(s)))

\* json.loads: the value a text decodes to is [t, n, items] with
\*   t = "num"   n the integer
\*   t = "float" items the characters of the literal (also NaN, Infinity, -Infinity)
\*   t = "str"   items the code points of the decoded string
\*   t = "bool"  n = 1 for true, 0 for false
\*   t = "null"
\*   t = "arr"   items the decoded elements
\*   t = "obj"   items the members [key |-> code points, val |-> value] of the dict
JVal(t, n, items) == [t |-> t, n |-> n, items |-> items]

Ok(v, p) == [ok |-> TRUE, val |-> v, pos |-> p]

Fail == [ok |-> FALSE, val |-> [t |-> "none", n |-> 0, items |-> <<>>], pos |-> 0]

\* JSON whitespace is [ \t\n\r] only
IsJsonSpace(c) == c \in {" ", "\t", "\n", "\r"}

RECURSIVE SkipJsonSpace(_, _)
SkipJsonSpace(s, i) ==
    IF i <= Len(s) /\ IsJsonSpace(s[i]) THEN SkipJsonSpace(s, i + 1) ELSE i

\* the characters with code points 32..255 in order ("" stands where the
\* grave accent would be)
Latin1 == <<" ", "!", "\"", "#", "$", "%", "&", "'", "(", ")", "*", "+",
            ",", "-", ".", "/", "0", "1", "2", "3", "4", "5", "6", "7",
            "8", "9", ":", ";", "<", "=", ">", "?", "@", "A", "B", "C",
            "D", "E", "F", "G", "H", "I", "J", "K", "L", "M", "N", "O",
            "P", "Q", "R", "S", "T", "U", "V", "W", "X", "Y", "Z", "[",
            "\\", "]", "^", "_", "", "a", "b", "c", "d", "e", "f", "g",
            "h", "i", "j", "k", "l", "m", "n", "o", "p", "q", "r", "s",
            "t", "u", "v", "w", "x", "y", "z", "{", "|", "}", "~", "",
            "", "", "", "", "", "", "", "", "", "", "", "",
            "", "", "", "", "", "", "", "", "", "", "", "",
            "", "", "", "", "", "", "", "", " ", "¡", "¢", "£",
            "¤", "¥", "¦", "§", "¨", "©", "ª", "«", "¬", "­", "®", "¯",
            "°", "±", "²", "³", "´", "µ", "¶", "·", "¸", "¹", "º", "»",
            "¼", "½", "¾", "¿", "À", "Á", "Â", "Ã", "Ä", "Å", "Æ", "Ç",
            "È", "É", "Ê", "Ë", "Ì", "Í", "Î", "Ï", "Ð", "Ñ", "Ò", "Ó",
            "Ô", "Õ", "Ö", "×", "Ø", "Ù", "Ú", "Û", "Ü", "Ý", "Þ", "ß",
            "à", "á", "â", "ã", "ä", "å", "æ", "ç", "è", "é", "ê", "ë",
            "ì", "í", "î", "ï", "ð", "ñ", "ò", "ó", "ô", "õ", "ö", "÷",
            "ø", "ù", "ú", "û", "ü", "ý", "þ", "ÿ">>

IsLatin1(c) == \E i \in 1..Len(Latin1) : Latin1[i] = c

\* ord(c) of a character that is not a control character
CodeOf(c) == 31 + (CHOOSE i \in 1..Len(Latin1) : Latin1[i] = c)

HexSeq == <<"0", "1", "2", "3", "4", "5", "6", "7", "8", "9",
            "a", "b", "c", "d", "e", "f">>

IsHex(c) == \E i \in 1..16 : HexSeq[i] = ToLower(c)

HexValue(c) == (CHOOSE i \in 1..16 : HexSeq[i] = ToLower(c)) - 1

DigitValue(c) == CHOOSE n \in 0..9 : HexSeq[n + 1] = c

\* the four characters from s[i] are hexadecimal digits
IsHex4(s, i) == i + 3 <= Len(s) /\ \A k \in i..(i + 3) : IsHex(s[k])

Hex4(s, i) == HexValue(s[i]) * 4096 + HexValue(s[i + 1]) * 256
              + HexValue(s[i + 2]) * 16 + HexValue(s[i + 3])

\* the one-character escapes of a JSON string
EscapeCode(c) ==
    IF c = "\"" THEN 34 ELSE IF c = "\\" THEN 92 ELSE IF c = "/" THEN 47
    ELSE IF c = "b" THEN 8 ELSE IF c = "f" THEN 12 ELSE IF c = "n" THEN 10
    ELSE IF c = "r" THEN 13 ELSE IF c = "t" THEN 9 ELSE 0 - 1

\* scanstring (strict): from s[i], just after the opening quote
RECURSIVE ScanString(_, _, _)
ScanString(s, i, acc) ==
    IF i > Len(s) THEN Fail
    ELSE IF s[i] = "\"" THEN Ok(JVal("str", 0, acc), i + 1)
    ELSE IF s[i] = "\\"
         THEN IF i + 1 > Len(s) THEN Fail
              ELSE IF s[i + 1] = "u"
                   THEN IF ~IsHex4(s, i + 2) THEN Fail
                        ELSE IF /\ Hex4(s, i + 2) \in 55296..56319
                                /\ i + 12 <= Len(s)
                                /\ s[i + 6] = "\\" /\ s[i + 7] = "u"
                             THEN IF ~IsHex4(s, i + 8) THEN Fail
                                  ELSE IF Hex4(s, i + 8) \in 56320..57343
                                       THEN ScanString(s, i + 12,
                                                Append(acc, 65536
                                                    + (Hex4(s, i + 2) - 55296) * 1024
                                                    + (Hex4(s, i + 8) - 56320)))
                                       ELSE ScanString(s, i + 6, Append(acc, Hex4(s, i + 2)))
                             ELSE ScanString(s, i + 6, Append(acc, Hex4(s, i + 2)))
                   ELSE IF EscapeCode(s[i + 1]) >= 0
                        THEN ScanString(s, i + 2, Append(acc, EscapeCode(s[i + 1])))
                        ELSE Fail
    ELSE IF ~IsLatin1(s[i]) THEN Fail
         ELSE ScanString(s, i + 1, Append(acc, CodeOf(s[i])))

RECURSIVE DigitsEnd(_, _)
DigitsEnd(s, i) == IF i <= Len(s) /\ IsDigit(s[i]) THEN DigitsEnd(s, i + 1) ELSE i

\* the integer written by the digits s[i..j-1]
RECURSIVE IntValue(_, _, _, _)
IntValue(s, i, j, acc) ==
    IF i >= j THEN acc ELSE IntValue(s, i + 1, j, acc * 10 + DigitValue(s[i]))

\* NUMBER_RE: (-?(?:0|[1-9]\d*))(\.\d+)?([eE][-+]?\d+)? matched at s[i]
JsonNumber(s, i) ==
    LET a == IF s[i] = "-" THEN i + 1 ELSE i
        intEnd == IF a > Len(s) \/ ~IsDigit(s[a]) THEN 0
                  ELSE IF s[a] = "0" THEN a + 1 ELSE DigitsEnd(s, a)
        fracEnd == IF intEnd + 1 <= Len(s) /\ s[intEnd] = "." /\ IsDigit(s[intEnd + 1])
                   THEN DigitsEnd(s, intEnd + 1) ELSE intEnd
        expDigits == IF fracEnd <= Len(s) /\ s[fracEnd] \in {"e", "E"}
                     THEN IF fracEnd + 1 <= Len(s) /\ s[fracEnd + 1] \in {"+", "-"}
                          THEN fracEnd + 2 ELSE fracEnd + 1
                     ELSE 0
        expEnd == IF expDigits # 0 /\ expDigits <= Len(s) /\ IsDigit(s[expDigits])
                  THEN DigitsEnd(s, expDigits) ELSE fracEnd
    IN  IF intEnd = 0 THEN Fail
        ELSE IF expEnd = intEnd
             THEN Ok(JVal("num", IF s[i] = "-" THEN 0 - IntValue(s, a, intEnd, 0)
                                 ELSE IntValue(s, a, intEnd, 0), <<>>), intEnd)
             ELSE Ok(JVal("float", 0, SubSeq(s, i, expEnd - 1)), expEnd)

\* the text from s[i] starts with the literal
StartsWith(s, i, lit) == i + Len(lit) - 1 <= Len(s) /\ SubSeq(s, i, i + Len(lit) - 1) = lit

\* dict[key] = val: a repeated key keeps its place and takes the new value
PutMember(ms, key, val) ==
    IF \E k \in 1..Len(ms) : ms[k].key = key
    THEN [k \in 1..Len(ms) |-> IF ms[k].key = key THEN [key |-> key, val |-> val] ELSE ms[k]]
    ELSE Append(ms, [key |-> key, val |-> val])

RECURSIVE ParseValue(_, _)
RECURSIVE ParseItems(_, _, _)
RECURSIVE ParseMembers(_, _, _)

\* scan_once at s[i]
ParseValue(s, i) ==
    IF i > Len(s) THEN Fail
    ELSE IF s[i] = "\"" THEN ScanString(s, i + 1, <<>>)
    ELSE IF s[i] = "{"
         THEN IF SkipJsonSpace(s, i + 1) <= Len(s) /\ s[SkipJsonSpace(s, i + 1)] = "}"
              THEN Ok(JVal("obj", 0, <<>>), SkipJsonSpace(s, i + 1) + 1)
              ELSE ParseMembers(s, SkipJsonSpace(s, i + 1), <<>>)
    ELSE IF s[i] = "["
         THEN IF SkipJsonSpace(s, i + 1) <= Len(s) /\ s[SkipJsonSpace(s, i + 1)] = "]"
              THEN Ok(JVal("arr", 0, <<>>), SkipJsonSpace(s, i + 1) + 1)
              ELSE ParseItems(s, SkipJsonSpace(s, i + 1), <<>>)
    ELSE IF StartsWith(s, i, <<"n", "u", "l", "l">>) THEN Ok(JVal("null", 0, <<>>), i + 4)
    ELSE IF StartsWith(s, i, <<"t", "r", "u", "e">>) THEN Ok(JVal("bool", 1, <<>>), i + 4)
    ELSE IF StartsWith(s, i, <<"f", "a", "l", "s", "e">>) THEN Ok(JVal("bool", 0, <<>>), i + 5)
    ELSE IF StartsWith(s, i, <<"N", "a", "N">>)
         THEN Ok(JVal("float", 0, <<"N", "a", "N">>), i + 3)
    ELSE IF StartsWith(s, i, <<"I", "n", "f", "i", "n", "i", "t", "y">>)
         THEN Ok(JVal("float", 0, SubSeq(s, i, i + 7)), i + 8)
    ELSE IF StartsWith(s, i, <<"-", "I", "n", "f", "i", "n", "i", "t", "y">>)
         THEN Ok(JVal("float", 0, SubSeq(s, i, i + 8)), i + 9)
    ELSE JsonNumber(s, i)

\* the elements of an array, from the first one at s[i]
ParseItems(s, i, acc) ==
    LET v == ParseValue(s, i)
        j == SkipJsonSpace(s, v.pos)
    IN  IF ~v.ok THEN Fail
        ELSE IF j > Len(s) THEN Fail
             ELSE IF s[j] = ","
                  THEN ParseItems(s, SkipJsonSpace(s, j + 1), Append(acc, v.val))
                  ELSE IF s[j] = "]"
                       THEN Ok(JVal("arr", 0, Append(acc, v.val)), j + 1)
                       ELSE Fail

\* the members of an object, from the quote of the first key at s[i]
ParseMembers(s, i, acc) ==
    LET key == ScanString(s, i + 1, <<>>)
        c == SkipJsonSpace(s, key.pos)
        v == ParseValue(s, SkipJsonSpace(s, c + 1))
        j == SkipJsonSpace(s, v.pos)
    IN  IF i > Len(s) \/ s[i] # "\"" THEN Fail
        ELSE IF ~key.ok THEN Fail
        ELSE IF c > Len(s) \/ s[c] # ":" THEN Fail
        ELSE IF ~v.ok THEN Fail
        ELSE IF j > Len(s) THEN Fail
        ELSE IF s[j] = "}"
             THEN Ok(JVal("obj", 0, PutMember(acc, key.val.items, v.val)), j + 1)
        ELSE IF s[j] = ","
             THEN ParseMembers(s, SkipJsonSpace(s, j + 1),
                               PutMember(acc, key.val.items, v.val))
        ELSE Fail

json_loads(s) ==
    LET v == ParseValue(s, SkipJsonSpace(s, 1))
    IN  IF v.ok /\ SkipJsonSpace(s, v.pos) = Len(s) + 1 THEN v ELSE Fail

\* the body of the try block: the name of the exception it raises ("" for
\* none) and the value it returns
TryBody(out) ==
    IF out.kind = "raise" THEN [exc |-> "APIError", value |-> <<>>]
    ELSE IF out.kind = "no_content" THEN [exc |-> "AttributeError", value |-> <<>>]
    ELSE IF ~HasSpan(Strip(out.content)) THEN [exc |-> "", value |-> <<>>]
    ELSE IF json_loads(Span(Strip(out.content))).ok
         THEN [exc |-> "", value |-> json_loads(Span(Strip(out.content))).val.items]
         ELSE [exc |-> "JSONDecodeError", value |-> <<>>]

\* except Exception as e: ... return []
ExceptAPIErrorOnly(r) == IF r.exc = "APIError" THEN [exc |-> "", value |-> <<>>] ELSE r

ExceptException(r) == IF r.exc # "" THEN [exc |-> "", value |-> <<>>] ELSE r

----------------------------------------------------------------------------
(* plan_day *)

TruncLen == 500
HecticThreshold == 8

Labels == {"POSITIVE", "NEGATIVE"}
Scores == {51, 99}       \* senti["score"], in percent

ErrNoText == [error |-> "No text provided"]
ErrNoModel == [error |-> "Sentiment model not loaded"]

EnvelopeFields == {"sentiment", "score", "detectedEmotion", "taskCount",
                   "tasks", "suggestions", "message"}

\* values the "text" member of the body can have: a str is its characters, a
\* number is n, a list has n elements of which chars is the first
TextVal(t, chars, n) == [t |-> t, chars |-> chars, n |-> n]

Absent == TextVal("absent", <<>>, 0)
EmptyStr == TextVal("str", <<>>, 0)

RECURSIVE Repeat(_, _)
Repeat(f, n) == IF n = 0 THEN <<>> ELSE f \o <<",">> \o Repeat(f, n - 1)

Frags == {<<"a">>, <<"A", " ", "1">>}

\* a text longer than the classifier's limit, with its only time past the limit
LongText == [i \in 1..TruncLen |-> "a"] \o <<" ", "1">>

StrTexts == {TextVal("str", Repeat(f, n), 0) : f \in Frags, n \in 0..MaxFrags}

TextVals == StrTexts \cup
            {Absent,
             TextVal("null", <<>>, 0),
             TextVal("num", <<>>, 0), TextVal("num", <<>>, 5),
             TextVal("list", <<>>, 0), TextVal("list", <<"a", " ", "1">>, 1),
             TextVal("str", LongText, 0), TextVal("list", LongText, 1),
             TextVal("list", <<"a">>, TruncLen + 1)}

\* request.json: null, a non-object value, or an object
Bodies == {[kind |-> "null", text |-> Absent], [kind |-> "array", text |-> Absent]}
          \cup {[kind |-> "object", text |-> v] : v \in TextVals}

\* longer response texts of the remote model
\* the answer the prompt asks for
SampleList ==
    <<"[", "{", "\"", "t", "i", "t", "l", "e", "\"", ":", " ", "\"",
      "T", "e", "a", " ", "b", "r", "e", "a", "k", "\"", ",", " ",
      "\"", "s", "t", "a", "r", "t", "\"", ":", " ", "\"", "1", "0",
      ":", "4", "5", "\"", ",", " ", "\"", "e", "n", "d", "\"", ":",
      " ", "\"", "1", "0", ":", "5", "5", "\"", "}", "]">>

\* the same list inside prose
SampleWrapped ==
    <<"S", "u", "r", "e", ":", "\n", "[", "{", "\"", "t", "i", "t",
      "l", "e", "\"", ":", " ", "\"", "T", "e", "a", " ", "b", "r",
      "e", "a", "k", "\"", ",", " ", "\"", "s", "t", "a", "r", "t",
      "\"", ":", " ", "\"", "1", "0", ":", "4", "5", "\"", ",", " ",
      "\"", "e", "n", "d", "\"", ":", " ", "\"", "1", "0", ":", "5",
      "5", "\"", "}", "]", "\n", "E", "n", "j", "o", "y", "!">>

\* an answer cut off before the closing bracket
SampleCutOff ==
    <<"[", "{", "\"", "t", "i", "t", "l", "e", "\"", ":", " ", "\"",
      "T", "e", "a", " ", "b", "r", "e", "a", "k", "\"", ",", " ",
      "\"", "s", "t", "a", "r", "t", "\"", ":", " ", "\"", "1", "0",
      ":", "4", "5", "\"">>

\* prose with two bracketed spans
SampleTwoSpans ==
    <<"S", "e", "e", " ", "[", "1", "]", " ", "a", "n", "d", " ",
      "[", "2", "]">>

SampleOutputs == {SampleList, SampleWrapped, SampleCutOff, SampleTwoSpans}

Outcomes == {[kind |-> "raise", content |-> <<>>],
             [kind |-> "no_content", content |-> <<>>]}
            \cup {[kind |-> "text", content |-> c] :
                     c \in Strings(OutAlphabet, MaxOut) \cup SampleOutputs}

\* data.get("text", "")
GetTextOf(d) == IF d.text.t = "absent" THEN EmptyStr ELSE d.text

\* text[:500]: the first 500 characters of a str, the first 500 elements of a
\* list with every element left whole
Slice(v) == IF v.t = "str" THEN TextVal("str", Take(v.chars, TruncLen), 0)
            ELSE TextVal("list", v.chars, Min({v.n, TruncLen}))

\* cls_input while the classifier has not been invoked
NoArgument == TextVal("none", <<>>, 0)

\* if not text
TruthyUnlessNone(v) == v.t # "null"

Truthy(v) == \/ v.t = "str" /\ v.chars # <<>>
             \/ v.t = "num" /\ v.n # 0
             \/ v.t = "list" /\ v.n # 0

\* if not sentiment_pipeline
NeverUnloaded(sp) == FALSE

Unloaded(sp) == sp = "None"

\* hectic = workload >= 8
HecticAbove(workload) == workload > HecticThreshold

Hectic(workload) == workload >= HecticThreshold

Emotion(label, workload) ==
    IF label = "NEGATIVE" \/ Hectic(workload) THEN "Stressed" ELSE "Balanced"

\* the two fixed messages (the source writes I've with a typographic apostrophe)
Message(hectic) == IF hectic THEN "Day looks hectic. I've suggested some breaks below."
                   ELSE "Your plan seems balanced. Here are some gentle wellness suggestions."

\* an exception leaves plan_day: the framework answers 500 with its own page
Raise(exc) ==
    /\ pc' = "done"
    /\ status' = 500
    /\ resp' = [exception |-> exc]

Init ==
    /\ client \in {"Groq", "None"}
    /\ sentiment_pipeline \in {"pipeline", "None"}
    /\ pc = "idle"
    /\ data = [kind |-> "none", text |-> Absent]
    /\ text = Absent
    /\ sentiment = "" /\ score = 0 /\ tasks = <<>> /\ emotion = ""
    /\ suggestions = <<>> /\ raw_output = [kind |-> "none", content |-> <<>>]
    /\ status = 0 /\ resp = [pending |-> TRUE]
    /\ cls_input = NoArgument /\ cls_calls = 0 /\ llm_calls = 0
    /\ raw_text = <<>> /\ built = <<>> /\ phase = "idle"

\* a POST /api/plan arrives; data = request.json
Request(body) ==
    /\ pc \in {"idle", "done"}
    /\ data' = body
    /\ pc' = "get_text"
    /\ text' = Absent
    /\ sentiment' = "" /\ score' = 0 /\ tasks' = <<>> /\ emotion' = ""
    /\ suggestions' = <<>> /\ raw_output' = [kind |-> "none", content |-> <<>>]
    /\ status' = 0 /\ resp' = [pending |-> TRUE]
    /\ cls_input' = NoArgument /\ cls_calls' = 0 /\ llm_calls' = 0
    /\ UNCHANGED <<client, sentiment_pipeline, tvars>>

\* text = data.get("text", "")
GetText ==
    /\ pc = "get_text"
    /\ IF data.kind # "object"
       THEN Raise("AttributeError") /\ UNCHANGED text
       ELSE /\ text' = GetTextOf(data)
            /\ pc' = "check_text"
            /\ UNCHANGED <<status, resp>>
    /\ UNCHANGED <<client, sentiment_pipeline, data, sentiment, score, tasks, emotion,
                   suggestions, raw_output, cls_input, cls_calls, llm_calls, tvars>>

\* if not text: return 400
CheckText ==
    /\ pc = "check_text"
    /\ IF ~Truthy(text)
       THEN pc' = "done" /\ status' = 400 /\ resp' = ErrNoText
       ELSE pc' = "check_model" /\ UNCHANGED <<status, resp>>
    /\ UNCHANGED <<client, sentiment_pipeline, data, text, sentiment, score, tasks,
                   emotion, suggestions, raw_output, cls_input, cls_calls, llm_calls, tvars>>

\* if not sentiment_pipeline: return 500
CheckModel ==
    /\ pc = "check_model"
    /\ IF Unloaded(sentiment_pipeline)
       THEN pc' = "done" /\ status' = 500 /\ resp' = ErrNoModel
       ELSE pc' = "classify" /\ UNCHANGED <<status, resp>>
    /\ UNCHANGED <<client, sentiment_pipeline, data, text, sentiment, score, tasks,
                   emotion, suggestions, raw_output, cls_input, cls_calls, llm_calls, tvars>>

\* senti = sentiment_pipeline(text[:500])[0]
Classify ==
    /\ pc = "classify"
    /\ IF sentiment_pipeline = "None" \/ text.t \notin {"str", "list"}
       THEN /\ Raise("TypeError")
            /\ UNCHANGED <<sentiment, score, cls_input, cls_calls>>
       ELSE /\ \E label \in Labels, sc \in Scores :
                  sentiment' = label /\ score' = sc
            /\ cls_input' = Slice(text)
            /\ cls_calls' = cls_calls + 1
            /\ pc' = "build_tasks"
            /\ UNCHANGED <<status, resp>>
    /\ UNCHANGED <<client, sentiment_pipeline, data, text, tasks, emotion,
                   suggestions, raw_output, llm_calls, tvars>>

\* tasks = build_tasks_from_text(text); workload; hectic; emotion
BuildTasks ==
    /\ pc = "build_tasks"
    /\ IF text.t # "str"
       THEN /\ Raise("TypeError")
            /\ UNCHANGED <<tasks, emotion>>
       ELSE /\ tasks' = build_tasks_from_text(text.chars)
            /\ emotion' = Emotion(sentiment, Len(tasks'))
            /\ pc' = "generate"
            /\ UNCHANGED <<status, resp>>
    /\ UNCHANGED <<client, sentiment_pipeline, data, text, sentiment, score,
                   suggestions, raw_output, cls_input, cls_calls, llm_calls, tvars>>

\* generate_dynamic_suggestions up to client.chat.completions.create(...)
Generate ==
    /\ pc = "generate"
    /\ IF ShortCircuit(tasks, client)
       THEN /\ suggestions' = <<>>
            /\ pc' = "respond"
            /\ UNCHANGED llm_calls
       ELSE /\ llm_calls' = llm_calls + 1
            /\ pc' = "llm_wait"
            /\ UNCHANGED suggestions
    /\ UNCHANGED <<client, sentiment_pipeline, data, text, sentiment, score, tasks,
                   emotion, raw_output, status, resp, cls_input, cls_calls, tvars>>

\* the remote call ends; the rest of the try block and its except clause
LLMReturn(out) ==
    /\ pc = "llm_wait"
    /\ raw_output' = out
    /\ IF ExceptException(TryBody(out)).exc # ""
       THEN /\ Raise(ExceptException(TryBody(out)).exc)
            /\ UNCHANGED suggestions
       ELSE /\ suggestions' = ExceptException(TryBody(out)).value
            /\ pc' = "respond"
            /\ UNCHANGED <<status, resp>>
    /\ UNCHANGED <<client, sentiment_pipeline, data, text, sentiment, score, tasks,
                   emotion, cls_input, cls_calls, llm_calls, tvars>>

\* return jsonify(response)
Respond ==
    /\ pc = "respond"
    /\ status' = 200
    /\ resp' = [sentiment |-> sentiment,
                score |-> score,
                detectedEmotion |-> emotion,
                taskCount |-> Len(tasks),
                tasks |-> tasks,
                suggestions |-> suggestions,
                message |-> Message(Hectic(Len(tasks)))]
    /\ pc' = "done"
    /\ UNCHANGED <<client, sentiment_pipeline, data, text, sentiment, score, tasks,
                   emotion, suggestions, raw_output, cls_input, cls_calls, llm_calls, tvars>>

Next ==
    \/ \E body \in Bodies : Request(body)
    \/ GetText
    \/ CheckText
    \/ CheckModel
    \/ Classify
    \/ BuildTasks
    \/ Generate
    \/ \E out \in Outcomes : LLMReturn(out)
    \/ Respond

Spec == Init /\ [][Next]_vars

----------------------------------------------------------------------------
(* Library check of build_tasks_from_text on every short text *)

InitTasks ==
    /\ raw_text \in Strings(TaskAlphabet, MaxLen)
    /\ built = <<>>
    /\ phase = "in"
    /\ client = "None" /\ sentiment_pipeline = "None" /\ pc = "idle"
    /\ data = [kind |-> "none", text |-> Absent] /\ text = Absent
    /\ sentiment = "" /\ score = 0 /\ tasks = <<>> /\ emotion = ""
    /\ suggestions = <<>> /\ raw_output = [kind |-> "none", content |-> <<>>]
    /\ status = 0 /\ resp = [pending |-> TRUE]
    /\ cls_input = NoArgument /\ cls_calls = 0 /\ llm_calls = 0

CallBuildTasks ==
    /\ phase = "in"
    /\ built' = build_tasks_from_text(raw_text)
    /\ phase' = "out"
    /\ UNCHANGED <<raw_text, hvars>>

NextTasks == CallBuildTasks

SpecTasks == InitTasks /\ [][NextTasks]_vars

----------------------------------------------------------------------------
(* Fragments of a text, stated from the positions of the separators *)

Cuts(raw) == {0, Len(raw) + 1} \cup {i \in 1..Len(raw) : IsSep(raw[i])}

PieceAfter(raw, c) == SubSeq(raw, c + 1, Min({d \in Cuts(raw) : d > c}) - 1)

Trim(p) == IF \A i \in 1..Len(p) : IsSpace(p[i]) THEN <<>>
           ELSE SubSeq(p, Min({i \in 1..Len(p) : ~IsSpace(p[i])}),
                          Max({i \in 1..Len(p) : ~IsSpace(p[i])}))

FragCuts(raw) == {c \in Cuts(raw) : c <= Len(raw) /\ Trim(PieceAfter(raw, c)) # <<>>}

Kth(S, k) == CHOOSE x \in S : Cardinality({y \in S : y < x}) = k - 1

Fragments(raw) == [k \in 1..Cardinality(FragCuts(raw)) |->
                      Trim(PieceAfter(raw, Kth(FragCuts(raw), k)))]

HasDigit(s) == \E i \in 1..Len(s) : IsDigit(s[i])
HasMatch(s) == parse_time_range(s) # <<>>

MatchFragments(raw) == SelectSeq(Fragments(raw), HasMatch)

IsPrefix(p, s) == Len(p) <= Len(s) /\ SubSeq(s, 1, Len(p)) = p

FirstDigit(s) == Min({i \in 1..Len(s) : IsDigit(s[i])})

TaskTitle == <<"T", "a", "s", "k">>

----------------------------------------------------------------------------
(* C7: build_tasks_from_text returns exactly one task per fragment (split  *)
(* on '.', ',' and ';', trimmed, empties dropped) that has at least one    *)
(* time-expression match and none for the others, in fragment order; a     *)
(* text without any digit yields the empty task list.                      *)
C7_OneTaskPerTimedFragment ==
    phase = "out" =>
        /\ Len(built) = Len(MatchFragments(raw_text))
        /\ \A i \in 1..Len(built) :
              /\ built[i] = TaskOf(MatchFragments(raw_text)[i])
              /\ HasDigit(MatchFragments(raw_text)[i])
              /\ IsPrefix(built[i].start,
                          Drop(MatchFragments(raw_text)[i],
                               FirstDigit(MatchFragments(raw_text)[i])))
        /\ (~HasDigit(raw_text) => built = <<>>)
        /\ \A k \in 1..Len(Fragments(raw_text)) :
              HasDigit(Fragments(raw_text)[k]) => HasMatch(Fragments(raw_text)[k])

\* two tasks kept in order while a fragment without a time is dropped
C7_Witness ==
    /\ phase = "out"
    /\ Len(built) >= 2
    /\ Len(Fragments(raw_text)) > Len(built)
    /\ built[1].end = None

----------------------------------------------------------------------------
(* C8 as stated: the title is the fragment with everything from its first  *)
(* digit onward deleted, trimmed, only the first character upper-cased     *)
(* and the others unchanged; "Task" when that is empty.                    *)
UpperFirstOnly(s) == [i \in 1..Len(s) |-> IF i = 1 THEN ToUpper(s[i]) ELSE s[i]]

ClaimedTitle(f) ==
    IF UpperFirstOnly(Trim(SubSeq(f, 1, FirstDigit(f) - 1))) = <<>>
    THEN TaskTitle
    ELSE UpperFirstOnly(Trim(SubSeq(f, 1, FirstDigit(f) - 1)))

C8_TitleAsStated ==
    phase = "out" =>
        \A i \in 1..Len(built) :
            i <= Len(MatchFragments(raw_text)) =>
                built[i].title = ClaimedTitle(MatchFragments(raw_text)[i])

(* C8 amended: the deletion starts at the first digit that begins a word   *)
(* (at the fragment start or after a non-word character) and has no line   *)
(* break after it, nothing is deleted when there is no such digit, and the *)
(* characters after the first are lower-cased; "Task" when the result is   *)
(* empty, as for a fragment that is one bare time expression on one line.  *)
WordStartDigits(f) ==
    {i \in 1..Len(f) : /\ IsDigit(f[i])
                       /\ (i > 1 => ~IsWord(f[i - 1]))
                       /\ ~\E j \in (i + 1)..Len(f) : f[j] = "\n"}

KeptPart(f) == IF WordStartDigits(f) = {} THEN f
               ELSE SubSeq(f, 1, Min(WordStartDigits(f)) - 1)

UpperFirstLowerRest(s) ==
    IF s = <<>> THEN <<>>
    ELSE TitleFirst(s[1]) \o [i \in 1..(Len(s) - 1) |-> ToLower(s[i + 1])]

AmendedTitle(f) ==
    IF Trim(KeptPart(f)) = <<>> THEN TaskTitle
    ELSE UpperFirstLowerRest(Trim(KeptPart(f)))

C8_TitleAmended ==
    phase = "out" =>
        /\ Len(built) = Len(MatchFragments(raw_text))
        /\ \A i \in 1..Len(built) :
              /\ built[i].title = AmendedTitle(MatchFragments(raw_text)[i])
              /\ built[i].title # <<>>
              /\ (/\ parse_time_range(MatchFragments(raw_text)[i])
                        = <<MatchFragments(raw_text)[i]>>
                  /\ \A j \in 1..Len(MatchFragments(raw_text)[i]) :
                        MatchFragments(raw_text)[i][j] # "\n"
                  => built[i].title = TaskTitle)

\* one default title and one title where the stated rule and the code differ
C8_Witness ==
    /\ phase = "out"
    /\ Len(built) = 2
    /\ Len(MatchFragments(raw_text)) = 2
    /\ built[1].title = TaskTitle
    /\ built[2].title # ClaimedTitle(MatchFragments(raw_text)[2])

----------------------------------------------------------------------------
(* C9: for every returned task, start is the first time-expression match   *)
(* of its fragment and never null, end is the second match or null when    *)
(* there is exactly one; further matches are dropped and create no task.   *)
C9_StartEndFirstTwo ==
    phase = "out" =>
        /\ Len(built) = Len(MatchFragments(raw_text))
        /\ \A i \in 1..Len(built) :
              LET times == parse_time_range(MatchFragments(raw_text)[i])
              IN  /\ built[i].start = times[1]
                  /\ built[i].start # None
                  /\ IsDigit(built[i].start[1])
                  /\ built[i].end = (IF Len(times) = 1 THEN None ELSE times[2])
                  /\ DOMAIN built[i] = {"title", "start", "end"}

\* a fragment with three matches gave one task
C9_Witness ==
    /\ phase = "out"
    /\ Len(built) = 1
    /\ Len(parse_time_range(MatchFragments(raw_text)[1])) >= 3
    /\ built[1].end # None

----------------------------------------------------------------------------
(* C1: when suggestion generation runs with a non-empty task list and an   *)
(* initialized client, every failing outcome of the LLM step (the call     *)
(* raises, the text has no '[...]' span, the span is not strict JSON)      *)
(* gives the empty list without raising and the request ends 200 with      *)
(* suggestions = [].                                                       *)
LLMStepFailed(out) ==
    \/ out.kind \in {"raise", "no_content"}
    \/ /\ out.kind = "text"
       /\ \/ ~\E i, j \in 1..Len(out.content) :
                 i < j /\ out.content[i] = "[" /\ out.content[j] = "]"
          \/ ~json_loads(Span(Strip(out.content))).ok

C1_LLMFailureGivesEmpty ==
    (llm_calls = 1 /\ pc \in {"respond", "done"} /\ LLMStepFailed(raw_output)) =>
        /\ tasks # <<>> /\ client = "Groq"
        /\ suggestions = <<>>
        /\ DOMAIN resp # {"exception"}
        /\ (pc = "done" => /\ status = 200
                           /\ DOMAIN resp = EnvelopeFields
                           /\ resp.suggestions = <<>>)

\* a bracketed span that is not JSON, answered 200 with no suggestion
C1_Witness ==
    /\ pc = "done" /\ status = 200 /\ llm_calls = 1
    /\ raw_output.kind = "text"
    /\ HasSpan(raw_output.content)
    /\ ~json_loads(Span(Strip(raw_output.content))).ok
    /\ resp.suggestions = <<>>

----------------------------------------------------------------------------
(* C2: with an empty task list, or while the client is None, generation    *)
(* returns the empty list and the remote API is never called during that   *)
(* request.                                                                *)
C2_ShortCircuitMakesNoCall ==
    (pc \in {"llm_wait", "respond"} \/ (pc = "done" /\ status = 200)) =>
        ((tasks = <<>> \/ client = "None") =>
            /\ llm_calls = 0
            /\ pc # "llm_wait"
            /\ suggestions = <<>>
            /\ raw_output.kind = "none"
            /\ (pc = "done" => resp.suggestions = <<>>))

\* a text without any time, answered while the client is available
C2_Witness ==
    /\ pc = "done" /\ status = 200
    /\ client = "Groq" /\ tasks = <<>>
    /\ llm_calls = 0 /\ resp.suggestions = <<>>

----------------------------------------------------------------------------
(* C3: in every 200 answer detectedEmotion is "Stressed" exactly when the  *)
(* label is NEGATIVE or the task count is at least 8, else "Balanced";     *)
(* the score plays no part.                                                *)
C3_EmotionRule ==
    (pc = "done" /\ status = 200) =>
        /\ resp.detectedEmotion \in {"Stressed", "Balanced"}
        /\ resp.taskCount = Len(resp.tasks)
        /\ (resp.detectedEmotion = "Stressed"
               <=> (resp.sentiment = "NEGATIVE" \/ resp.taskCount >= 8))

\* eight tasks and a positive label
C3_Witness ==
    /\ pc = "done" /\ status = 200
    /\ resp.taskCount = 8 /\ resp.sentiment = "POSITIVE"
    /\ resp.detectedEmotion = "Stressed"

----------------------------------------------------------------------------
(* C4: a body without a text key, or with an empty text, is answered 400   *)
(* {"error": "No text provided"} whatever the classifier and client are.   *)
NoText(d) == /\ d.kind = "object"
             /\ \/ d.text.t = "absent"
                \/ d.text.t = "str" /\ Len(d.text.chars) = 0

C4_MissingTextIs400 ==
    (pc = "done" /\ NoText(data)) =>
        /\ status = 400
        /\ resp = [error |-> "No text provided"]
        /\ cls_calls = 0 /\ llm_calls = 0

\* the body {"text": ""} while the classifier is not loaded
C4_Witness ==
    /\ pc = "done" /\ status = 400
    /\ data.kind = "object" /\ data.text.t = "str" /\ data.text.chars = <<>>
    /\ sentiment_pipeline = "None"

----------------------------------------------------------------------------
(* C5 as stated: if the classifier failed to load, every request is        *)
(* answered with the server-error status 500, and a JSON error body is     *)
(* {"error": "Sentiment model not loaded"}.  (The framework's own 500 page *)
(* for an exception is let through here, so that the statement fails on    *)
(* the handler's own answers alone.)                                       *)
C5_AllTraffic500 ==
    (sentiment_pipeline = "None" /\ pc = "done") =>
        /\ status = 500
        /\ (DOMAIN resp = {"error"} => resp = [error |-> "Sentiment model not loaded"])

(* C5 amended: if the classifier failed to load, no request is ever        *)
(* answered 200 and the classifier is never invoked; a request whose body  *)
(* is an object with a non-empty text is answered 500 {"error":            *)
(* "Sentiment model not loaded"}, one with a missing or empty text 400.    *)
HasText(d) == /\ d.kind = "object"
              /\ \/ d.text.t = "str" /\ Len(d.text.chars) > 0
                 \/ d.text.t \in {"num", "list"} /\ d.text.n > 0

C5_Unloaded500ForText ==
    sentiment_pipeline = "None" =>
        /\ status # 200
        /\ cls_calls = 0 /\ llm_calls = 0
        /\ (pc = "done" /\ HasText(data) =>
               status = 500 /\ resp = [error |-> "Sentiment model not loaded"])
        /\ (pc = "done" /\ NoText(data) => status = 400)

\* a request with text refused because the classifier is not loaded
C5_Witness ==
    /\ sentiment_pipeline = "None" /\ pc = "done"
    /\ data.kind = "object" /\ data.text.t = "str" /\ Len(data.text.chars) > 0
    /\ status = 500 /\ resp = [error |-> "Sentiment model not loaded"]

----------------------------------------------------------------------------
(* C6: every request, for any JSON body, ends in 400 with a JSON error     *)
(* body, 500 with a JSON error body, or 200 with the complete envelope;    *)
(* the handler never ends in an unhandled exception.                       *)
C6_ThreeOutcomesOnly ==
    pc = "done" =>
        \/ status = 400 /\ DOMAIN resp = {"error"}
        \/ status = 500 /\ DOMAIN resp = {"error"}
        \/ status = 200 /\ DOMAIN resp = EnvelopeFields

----------------------------------------------------------------------------
(* C10: one linear pass per request: the classifier is invoked at most     *)
(* once, the LLM at most once and only after the classifier returned and   *)
(* the tasks were built, and on a request answered 400 or 500 neither is   *)
(* invoked.                                                                *)
C10_LinearPass ==
    /\ cls_calls <= 1
    /\ llm_calls <= 1
    /\ (llm_calls = 1 => cls_calls = 1 /\ sentiment \in Labels /\ tasks # <<>>)
    /\ (pc = "done" /\ status \in {400, 500} => cls_calls = 0 /\ llm_calls = 0)

====
